---- MODULE Spec2Model ----
(***************************************************************************)
(* Model of batch_extract_from_urls.py: the batch pipeline that reads a    *)
(* CSV of media URLs and, per row, writes url.txt, metadata.txt,           *)
(* media_type.txt and first_frame.npy into the job directory url_<index>.  *)
(*                                                                         *)
(* A URL is a sequence of tokens (an extension such as ".jpg" is one       *)
(* token, "?" and "#" are the query and fragment marks, " " is white       *)
(* space).  An optional value (Python's None, an absent file) is the empty *)
(* sequence, a present one is a one-element sequence.  A Content-Type      *)
(* header is the set of the tokens "image" / "video" it contains.          *)
(***************************************************************************)
EXTENDS Integers, Sequences, FiniteSets, TLC

VARIABLES
    fs,             \* out_dir: job id -> [dir, url, meta, mtype, npy]
    calls,          \* calls of process_url made so far, over all runs
    faults,         \* file operations that raised so far, over all runs
    pc,             \* position of the running main / process_url
    rows,           \* main: rows = read_urls(...)
    dropped,        \* number of CSV rows read_urls did not return
    argStart,       \* args.start
    argEnd,         \* args.end (None or an int)
    overwrite,      \* args.overwrite
    start,          \* main: start
    end,            \* main: end
    i,              \* main: loop variable
    url,            \* process_url: url
    media_type,     \* process_url: media_type
    download_error, \* process_url: download_error
    resp,           \* download_file: what the transports answered, the headers
                    \* kept until media_type.txt is written
    frame,          \* process_url: the still frame at temp_frame_path
    err,            \* main: err returned by process_url
    num_frames,     \* main: num_frames returned by process_url
    successes,      \* main: successes
    failures,       \* main: failures
    log,            \* the per-row lines main printed in this run
    exitStatus,     \* exit status of the run (None while running)
    events,         \* what process_url did so far for the current row
    pre,            \* the job's files when process_url was entered
    tmp,            \* process_url: the temporary directory tdir exists
    arg,            \* the arguments of the function applied on its own
    ret             \* what that function returned (None before the call)

vars == <<fs, calls, faults, pc, rows, dropped, argStart, argEnd, overwrite, start, end,
          i, url, media_type, download_error, resp, frame, err, num_frames,
          successes, failures, log, exitStatus, events, pre, tmp, arg, ret>>

\* ------------------------------------------------------------------ bounds

MaxRows == 2        \* longest CSV the model reads
MaxCalls == 2       \* rows processed over all the runs on one out_dir
MaxFaults == 1      \* file operations (write, remove) that raise
MaxUrlLen == 3      \* longest URL, in tokens, a function is applied to on its own
MaxIndex == 11      \* the row ordinals 0..MaxIndex job_id is applied to on its own

\* ------------------------------------------------------------ basic values

None == <<>>
Some(x) == <<x>>
Absent == <<>>
File(c) == <<c>>

Max(a, b) == IF a >= b THEN a ELSE b
Range(s) == {s[k] : k \in 1..Len(s)}

RECURSIVE SeqsUpTo(_, _)
SeqsUpTo(S, n) ==
    IF n = 0 THEN {<<>>}
    ELSE LET shorter == SeqsUpTo(S, n - 1)
         IN  shorter \cup {Append(s, x) : s \in {t \in shorter : Len(t) = n - 1}, x \in S}

\* The URL cells the CSV may hold: an empty and a blank one, an image by
\* extension, and one whose path names no extension (only its query
\* string does).
Urls == { <<>>, <<" ">>, <<"a", ".jpg">>, <<"p", "?", ".jpg">> }

Metas == {"7"}
CsvRows == [tvc : Urls, id : Metas]
Csvs == SeqsUpTo(CsvRows, MaxRows)

ContentTypes == SUBSET {"image", "video"}
Contents == {"c1", "c2"}    \* the media contents a server may return
Jobs == 0..(MaxRows - 1)

EmptyJob == [dir |-> FALSE, url |-> Absent, meta |-> Absent,
             mtype |-> Absent, npy |-> Absent]
NoBody == "none"    \* nothing usable at tmp_path
NoResp == [ct |-> {}, body |-> NoBody, head |-> None]

\* No function is being applied on its own.
NoArg == [fn |-> "none", url |-> <<>>, probe |-> None, ok |-> FALSE, ct |-> {},
          msg |-> "", a |-> 0, b |-> 0]

\* ------------------------------------------------------------ pure functions

\* str.strip() on a cell: leading and trailing white space removed.
RECURSIVE LStrip(_)
LStrip(s) == IF s # <<>> /\ Head(s) = " " THEN LStrip(Tail(s)) ELSE s

RECURSIVE RStrip(_)
RStrip(s) ==
    IF s # <<>> /\ s[Len(s)] = " " THEN RStrip(SubSeq(s, 1, Len(s) - 1)) ELSE s

Strip(s) == RStrip(LStrip(s))

\* The URL of a row: the cell of the URL column, stripped.
RowUrl(row) == Strip(row.tvc)

\* read_urls: the rows whose URL cell is not empty, in input order.
RECURSIVE read_urls(_)
read_urls(csv) ==
    IF csv = <<>> THEN <<>>
    ELSE IF RowUrl(Head(csv)) # <<>>
         THEN <<Head(csv)>> \o read_urls(Tail(csv))
         ELSE read_urls(Tail(csv))

image_exts == {".jpg", ".jpeg", ".png", ".gif", ".bmp", ".webp", ".svg", ".tiff", ".tif"}
video_exts == {".mp4", ".mov", ".avi", ".mkv", ".webm", ".flv", ".wmv", ".m4v", ".3gp"}

\* s.split(sep)[0]: the part of s before the first sep.
RECURSIVE Before(_, _)
Before(s, sep) ==
    IF s = <<>> \/ Head(s) = sep THEN <<>>
    ELSE <<Head(s)>> \o Before(Tail(s), sep)

\* str.lower() on the tokens of the model: the upper-case extensions.
LowerTok(t) == IF t = ".JPG" THEN ".jpg" ELSE IF t = ".MP4" THEN ".mp4" ELSE t

\* url_lower = url.lower()
Lower(u) == [k \in 1..Len(u) |-> LowerTok(u[k])]

\* url_lower.split('?')[0].split('#')[0]
PathPart(u) == Before(Before(Lower(u), "?"), "#")

\* detect_media_type reaches its HEAD probe: no extension names a type.
NeedsProbe(u) ==
    /\ Range(PathPart(u)) \cap image_exts = {}
    /\ Range(PathPart(u)) \cap video_exts = {}

\* Mutant: the video extensions are looked for first.
detect_media_type_VideoFirst(u, probe) ==
    IF Range(PathPart(u)) \cap video_exts # {} THEN "video"
    ELSE IF Range(PathPart(u)) \cap image_exts # {} THEN "image"
    ELSE IF probe # None /\ "image" \in probe[1] THEN "image"
    ELSE IF probe # None /\ "video" \in probe[1] THEN "video"
    ELSE "video"

\* Mutant: a URL nothing could be told about is taken for an image.
detect_media_type_DefaultImage(u, probe) ==
    IF Range(PathPart(u)) \cap image_exts # {} THEN "image"
    ELSE IF Range(PathPart(u)) \cap video_exts # {} THEN "video"
    ELSE IF probe # None /\ "image" \in probe[1] THEN "image"
    ELSE IF probe # None /\ "video" \in probe[1] THEN "video"
    ELSE "image"

\* detect_media_type(url); probe is the outcome of requests.head when the
\* function gets that far: None when it raised, else the Content-Type.
detect_media_type(u, probe) ==
    IF Range(PathPart(u)) \cap image_exts # {} THEN "image"
    ELSE IF Range(PathPart(u)) \cap video_exts # {} THEN "video"
    ELSE IF probe # None /\ "image" \in probe[1] THEN "image"
    ELSE IF probe # None /\ "video" \in probe[1] THEN "video"
    ELSE "video"

\* Mutant: the URL-based guess overrides the Content-Type.
ResponseTypeGuessFirst(ct, guess) == guess

\* download_file, primary transport succeeded: the type from the response's
\* Content-Type, else the URL-based guess.
ResponseType(ct, guess) ==
    IF "image" \in ct THEN "image"
    ELSE IF "video" \in ct THEN "video"
    ELSE guess

\* main: the resolved end of the range.
ResolveEnd(e, n) == IF e = None \/ e[1] > n THEN n ELSE e[1]

\* main: the resolved start of the range.
ResolveStart(s) == Max(0, s)

\* Mutant: an empty range start = end is let through.
RangeEmptyStrict(s, e) == s > e

\* main: "No URLs to process in the given range."
RangeEmpty(s, e) == s >= e

\* metadata.txt: one key=value line per column other than the URL column.
MetadataLines(row) == << <<"id", row.id>> >>

\* The vector embed_image_clip_to_npy saves for a still frame.
Embedding(f) == <<"clip", f>>

\* ensure_dir(job_dir): the directory exists afterwards.
ensure_dir(job) == [job EXCEPT !.dir = TRUE]

\* open(path, "w") and write: the file holds text, or is as it was when
\* the open raised.
WriteText(old, text, ok) == IF ok THEN File(text) ELSE old

\* os.remove under try/except: the file is gone, or stays when the
\* remove raised.
Remove(old, ok) == IF ok THEN Absent ELSE old

\* The decimal digits of a natural number, most significant first.
DigitChars == <<"0", "1", "2", "3", "4", "5", "6", "7", "8", "9">>

RECURSIVE Decimal(_)
Decimal(n) ==
    IF n < 10 THEN <<DigitChars[n + 1]>>
    ELSE Append(Decimal(n \div 10), DigitChars[(n % 10) + 1])

\* Python's zero fill of the format spec 0<w>d: zeros are put in front up
\* to the width w; a longer number is kept whole.
RECURSIVE ZeroFill(_, _)
ZeroFill(d, w) == IF Len(d) >= w THEN d ELSE ZeroFill(<<"0">> \o d, w)

\* Mutant: every row gets the job id url_0000.
job_id_SameForAll(index) == <<"url_">> \o ZeroFill(<<>>, 4)

\* Mutant: the number is cut to its last four digits.
job_id_LastFour(index) == <<"url_">> \o ZeroFill(Decimal(index % 10000), 4)

\* process_url: job_id = f"url_{index:04d}"; job_dir is out_dir/job_id.
job_id(index) == <<"url_">> \o ZeroFill(Decimal(index), 4)

\* The job directories the rows of the model can name.
JobIds == {job_id(j) : j \in Jobs}

\* Mutant: tdir is made with mkdtemp and never removed.
ExitTempDirKeep(t) == t

\* with tempfile.TemporaryDirectory() as tdir: leaving the block, by
\* return or by exception, removes tdir and all it holds.
ExitTempDir(t) == FALSE

\* Mutant: a run with a failed row exits with status 1.
SummaryStatusFailing(fails) == IF fails > 0 THEN 1 ELSE 0

\* main returns after the summary line: the exit status of the process.
SummaryStatus(fails) == 0

\* ------------------------------------------------------------- control flow

ArgStarts == (0 - 1)..MaxRows
ArgEnds == {None} \cup {Some(n) : n \in (0 - 1)..(MaxRows + 1)}

RowPcs == {"clear", "wurl", "wmeta", "mktemp", "download", "wmtype", "extract", "embed",
           "report"}

\* Mutant: the download is started before the provenance writes.
AfterEnsureDirFetchFirst(ow) == "download"

\* process_url after ensure_dir: the overwrite clean-up, else the first write.
AfterEnsureDir(ow) == IF ow THEN "clear" ELSE "wurl"

\* process_url after the metadata write: the temporary directory is made.
AfterMetadata == "mktemp"

\* Mutant: a failed row ends the loop.
AfterReportAbort(e) == IF e # None /\ e[1] # "" THEN "done" ELSE "loop"

\* main after a row's outcome is printed: the for loop goes on.
AfterReport(e) == "loop"

\* The locals of process_url, cleared between rows.
ClearLocals ==
    /\ url' = <<>>
    /\ media_type' = None
    /\ download_error' = None
    /\ resp' = NoResp
    /\ frame' = None
    /\ err' = None
    /\ num_frames' = 0
    /\ events' = <<>>
    /\ pre' = EmptyJob
    /\ tmp' = FALSE

\* process_url returns (job_id, num_frames, err) to main: its locals are
\* gone, the temporary directory with them.
Return(e, n) ==
    /\ err' = e
    /\ num_frames' = n
    /\ pc' = "report"
    /\ url' = <<>>
    /\ media_type' = None
    /\ download_error' = None
    /\ resp' = NoResp
    /\ frame' = None
    /\ tmp' = ExitTempDir(tmp)

\* main has not started: no row read, nothing in out_dir.
PipelineInit ==
    /\ fs = [j \in JobIds |-> EmptyJob]
    /\ calls = 0
    /\ faults = 0
    /\ pc = "idle"
    /\ rows = <<>>
    /\ dropped = 0
    /\ argStart = 0
    /\ argEnd = None
    /\ overwrite = FALSE
    /\ start = 0
    /\ end = 0
    /\ i = 0
    /\ url = <<>>
    /\ media_type = None
    /\ download_error = None
    /\ resp = NoResp
    /\ frame = None
    /\ err = None
    /\ num_frames = 0
    /\ successes = 0
    /\ failures = 0
    /\ log = <<>>
    /\ exitStatus = None
    /\ events = <<>>
    /\ pre = EmptyJob
    /\ tmp = FALSE

Init ==
    /\ PipelineInit
    /\ arg = NoArg
    /\ ret = None

\* main: the arguments are parsed and the input file is looked for; a
\* missing file ends the run with status 1.
ParseArgs ==
    /\ pc = "idle"
    /\ \E s \in ArgStarts, e \in ArgEnds, ow \in BOOLEAN, exists \in BOOLEAN :
          /\ argStart' = s
          /\ argEnd' = e
          /\ overwrite' = ow
          /\ IF exists
             THEN pc' = "read" /\ exitStatus' = None
             ELSE pc' = "exit" /\ exitStatus' = Some(1)
    /\ UNCHANGED <<fs, calls, faults, rows, dropped, start, end, i, url, media_type,
                   download_error, resp, frame, err, num_frames, successes,
                   failures, log, events, pre>>
    /\ UNCHANGED <<tmp, arg, ret>>

\* main: the rows are read, the range is resolved and validated, and the
\* loop is entered or the run ends with status 1.  args.start and args.end
\* are not read again after this step; the model forgets them here.
ReadAndResolve ==
    /\ pc = "read"
    /\ \E csv \in Csvs :
          LET rs == read_urls(csv)
              en == ResolveEnd(argEnd, Len(rs))
              st == ResolveStart(argStart)
          IN  /\ en - st <= MaxCalls - calls
              /\ rows' = rs
              /\ dropped' = Len(csv) - Len(rs)
              /\ start' = st
              /\ end' = en
              /\ i' = st
              /\ IF RangeEmpty(st, en)
                 THEN pc' = "exit" /\ exitStatus' = Some(1)
                 ELSE pc' = "loop" /\ exitStatus' = None
    /\ argStart' = 0
    /\ argEnd' = None
    /\ successes' = 0
    /\ failures' = 0
    /\ UNCHANGED <<fs, calls, faults, overwrite, url, media_type, download_error,
                   resp, frame, err, num_frames, log, events, pre>>
    /\ UNCHANGED <<tmp, arg, ret>>

\* main calls process_url(i, rows[i], ...): the URL is taken from the row;
\* an empty one returns no_url_in_row, else the job directory is made.
BeginRow ==
    /\ pc = "loop"
    /\ i < end
    /\ calls' = calls + 1
    /\ pre' = fs[job_id(i)]
    /\ LET u == RowUrl(rows[i + 1])
       IN  IF u = <<>>
           THEN /\ Return(Some("no_url_in_row"), 0)
                /\ events' = <<>>
                /\ UNCHANGED fs
           ELSE /\ url' = u
                /\ pc' = AfterEnsureDir(overwrite)
                /\ events' = <<"ensure_dir">>
                /\ fs' = [fs EXCEPT ![job_id(i)] = ensure_dir(@)]
                /\ UNCHANGED <<media_type, download_error, resp, frame, err, num_frames, tmp>>
    /\ UNCHANGED <<faults, rows, dropped, argStart, argEnd, overwrite, start, end, i,
                   successes, failures, log, exitStatus>>
    /\ UNCHANGED <<arg, ret>>

\* process_url, overwrite: each of the four files that exists is removed;
\* a remove that raises is ignored (ok holds the removes that succeed).
ClearArtifacts ==
    /\ pc = "clear"
    /\ \E ok \in [{"npy", "url", "meta", "mtype"} -> BOOLEAN] :
          /\ \A f \in DOMAIN ok : fs[job_id(i)][f] = Absent => ok[f]
          /\ faults' = faults + Cardinality({f \in DOMAIN ok : ~ok[f]})
          /\ faults' <= MaxFaults
          /\ fs' = [fs EXCEPT ![job_id(i)].npy = Remove(@, ok["npy"]),
                              ![job_id(i)].url = Remove(@, ok["url"]),
                              ![job_id(i)].meta = Remove(@, ok["meta"]),
                              ![job_id(i)].mtype = Remove(@, ok["mtype"])]
    /\ events' = Append(events, "clear")
    /\ pc' = "wurl"
    /\ UNCHANGED <<calls, rows, dropped, argStart, argEnd, overwrite, start, end, i,
                   url, media_type, download_error, resp, frame, err, num_frames,
                   successes, failures, log, exitStatus, pre>>
    /\ UNCHANGED <<tmp, arg, ret>>

\* process_url: url.txt is written; a write that raises is ignored.
WriteUrl ==
    /\ pc = "wurl"
    /\ \E ok \in BOOLEAN :
          /\ ~ok => faults < MaxFaults
          /\ faults' = IF ok THEN faults ELSE faults + 1
          /\ fs' = [fs EXCEPT ![job_id(i)].url = WriteText(@, url, ok)]
          /\ events' = Append(events, IF ok THEN "w_url" ELSE "w_url_fail")
    /\ pc' = "wmeta"
    /\ UNCHANGED <<calls, rows, dropped, argStart, argEnd, overwrite, start, end, i,
                   url, media_type, download_error, resp, frame, err, num_frames,
                   successes, failures, log, exitStatus, pre>>
    /\ UNCHANGED <<tmp, arg, ret>>

\* process_url: metadata.txt is written; a write that raises is ignored.
WriteMetadata ==
    /\ pc = "wmeta"
    /\ \E ok \in BOOLEAN :
          /\ ~ok => faults < MaxFaults
          /\ faults' = IF ok THEN faults ELSE faults + 1
          /\ fs' = [fs EXCEPT ![job_id(i)].meta = WriteText(@, MetadataLines(rows[i + 1]), ok)]
          /\ events' = Append(events, IF ok THEN "w_meta" ELSE "w_meta_fail")
    /\ pc' = AfterMetadata
    /\ UNCHANGED <<calls, rows, dropped, argStart, argEnd, overwrite, start, end, i,
                   url, media_type, download_error, resp, frame, err, num_frames,
                   successes, failures, log, exitStatus, pre>>
    /\ UNCHANGED <<tmp, arg, ret>>

\* process_url: the with block is entered, tdir is made.
EnterTempDir ==
    /\ pc = "mktemp"
    /\ tmp' = TRUE
    /\ pc' = "download"
    /\ UNCHANGED <<fs, calls, faults, rows, dropped, argStart, argEnd, overwrite,
                   start, end, i, url, media_type, download_error, resp, frame, err,
                   num_frames, successes, failures, log, exitStatus, events, pre>>
    /\ UNCHANGED <<arg, ret>>

\* str(e) of the exception a transport raised; it may be the empty string.
ErrMsgs == {"", "HTTP 404"}

\* Python truth of an Optional[str]: None and "" are false.
Truthy(x) == x # None /\ x[1] # ""

\* download_file(url, dest_path).  ok: the primary transport (requests.get,
\* raise_for_status, the streamed write) did not raise; ct: its
\* Content-Type; msg: str(e) when it raised; probe: the outcome of the HEAD
\* probe of detect_media_type.  Returns the pair (media_type, error) and
\* the network calls made, in order.
download_file(u, ok, ct, msg, probe) ==
    LET guess == detect_media_type(u, probe)
        callsDetect == ~ok \/ ("image" \notin ct /\ "video" \notin ct)
    IN  [media_type |-> IF ok THEN ResponseType(ct, guess) ELSE guess,
         error |-> IF ok THEN None ELSE Some(msg),
         calls |-> <<"requests">> \o
                   (IF callsDetect /\ NeedsProbe(u) THEN <<"head">> ELSE <<>>)]

\* process_url: download_file is called; a true download_error returns
\* download_error for the row.
Download ==
    /\ pc = "download"
    /\ \E ok \in BOOLEAN, ct \in ContentTypes, body \in {NoBody} \cup Contents,
          msg \in ErrMsgs, probe \in {None} \cup {Some(c) : c \in ContentTypes} :
          LET r == download_file(url, ok, ct, msg, probe)
          IN  /\ ok => body # NoBody /\ msg = ""
              /\ ~ok => ct = {} /\ (msg # "" => body = NoBody)
              /\ "head" \notin Range(r.calls) => probe = None
              /\ events' = events \o <<"download_file">> \o r.calls
              /\ IF Truthy(r.error)
                 THEN Return(Some("download_error"), 0)
                 ELSE /\ media_type' = Some(r.media_type)
                      /\ download_error' = r.error
                      /\ resp' = [ct |-> ct, body |-> body,
                                  head |-> IF "head" \in Range(r.calls)
                                           THEN Some(probe) ELSE None]
                      /\ pc' = "wmtype"
                      /\ UNCHANGED <<url, frame, err, num_frames, tmp>>
    /\ UNCHANGED <<fs, calls, faults, rows, dropped, argStart, argEnd, overwrite,
                   start, end, i, successes, failures, log, exitStatus, pre>>
    /\ UNCHANGED <<arg, ret>>

\* process_url: media_type.txt is written; a write that raises is ignored.
WriteMediaType ==
    /\ pc = "wmtype"
    /\ \E ok \in BOOLEAN :
          /\ ~ok => faults < MaxFaults
          /\ faults' = IF ok THEN faults ELSE faults + 1
          /\ fs' = [fs EXCEPT ![job_id(i)].mtype = WriteText(@, media_type[1], ok)]
          /\ events' = Append(events, IF ok THEN "w_mtype" ELSE "w_mtype_fail")
    /\ resp' = [resp EXCEPT !.ct = {}, !.head = None]
    /\ pc' = "extract"
    /\ UNCHANGED <<calls, rows, dropped, argStart, argEnd, overwrite, start, end, i,
                   url, media_type, download_error, frame, err, num_frames,
                   successes, failures, log, exitStatus, pre>>
    /\ UNCHANGED <<tmp, arg, ret>>

\* process_url, image branch: the image is opened, converted and saved as
\* the still frame, or image_process_error.
ExtractImage ==
    /\ pc = "extract"
    /\ media_type = Some("image")
    /\ events' = Append(events, "x_image")
    /\ \E good \in BOOLEAN :
          /\ good => resp.body # NoBody
          /\ IF good
             THEN /\ frame' = Some(resp.body)
                  /\ pc' = "embed"
                  /\ UNCHANGED <<url, media_type, download_error, resp, err, num_frames, tmp>>
             ELSE Return(Some("image_process_error"), 0)
    /\ UNCHANGED <<fs, calls, faults, rows, dropped, argStart, argEnd, overwrite,
                   start, end, i, successes, failures, log, exitStatus, pre>>
    /\ UNCHANGED <<arg, ret>>

VideoOutcomes == {"ok", "video_open_error", "read_first_frame_error", "first_frame_error"}

\* process_url, video branch: the first frame is read and saved as the
\* still frame, or one of the three video errors.
ExtractVideo ==
    /\ pc = "extract"
    /\ media_type # Some("image")
    /\ events' = Append(events, "x_video")
    /\ \E out \in VideoOutcomes :
          /\ out = "ok" => resp.body # NoBody
          /\ IF out = "ok"
             THEN /\ frame' = Some(resp.body)
                  /\ pc' = "embed"
                  /\ UNCHANGED <<url, media_type, download_error, resp, err, num_frames, tmp>>
             ELSE Return(Some(out), 0)
    /\ UNCHANGED <<fs, calls, faults, rows, dropped, argStart, argEnd, overwrite,
                   start, end, i, successes, failures, log, exitStatus, pre>>
    /\ UNCHANGED <<arg, ret>>

\* embed_image_clip_to_npy(temp_frame_path, first_embed_path): it saves the
\* vector at first_frame.npy, or raises and leaves the file as it was.
embed_image_clip_to_npy(old, f, ok) == IF ok THEN File(Embedding(f)) ELSE old

\* process_url: the embedding call; an exception returns embed_error with a
\* frame count of 1.
Embed ==
    /\ pc = "embed"
    /\ events' = Append(events, "embed")
    /\ \E ok \in BOOLEAN :
          /\ fs' = [fs EXCEPT ![job_id(i)].npy = embed_image_clip_to_npy(@, frame[1], ok)]
          /\ Return(IF ok THEN None ELSE Some("embed_error"), 1)
    /\ UNCHANGED <<calls, faults, rows, dropped, argStart, argEnd, overwrite, start,
                   end, i, successes, failures, log, exitStatus, pre>>
    /\ UNCHANGED <<arg, ret>>

\* Mutant: a row counts as failed when it yielded no frame.
CountsAsFailureByFrames(e, n) == n = 0

\* main: if err: the row counts as a failure, whatever num_frames is.
CountsAsFailure(e, n) == Truthy(e)

\* main: the row's outcome is counted and printed, and the loop goes on.
Report ==
    /\ pc = "report"
    /\ IF CountsAsFailure(err, num_frames)
       THEN failures' = failures + 1 /\ UNCHANGED successes
       ELSE successes' = successes + 1 /\ UNCHANGED failures
    /\ log' = Append(log, [idx |-> i, ok |-> ~CountsAsFailure(err, num_frames)])
    /\ i' = i + 1
    /\ pc' = AfterReport(err)
    /\ url' = <<>>
    /\ media_type' = None
    /\ download_error' = None
    /\ resp' = NoResp
    /\ frame' = None
    /\ err' = None
    /\ num_frames' = 0
    /\ events' = <<>>
    /\ pre' = EmptyJob
    /\ UNCHANGED <<fs, calls, faults, rows, dropped, argStart, argEnd, overwrite, start, end,
                   exitStatus>>
    /\ UNCHANGED <<tmp, arg, ret>>

\* main: the loop is over; the summary line is printed and main returns.
Finish ==
    /\ pc = "loop"
    /\ i >= end
    /\ pc' = "done"
    /\ exitStatus' = Some(SummaryStatus(failures))
    /\ UNCHANGED <<fs, calls, faults, rows, dropped, argStart, argEnd, overwrite, start, end, i,
                   url, media_type, download_error, resp, frame, err, num_frames,
                   successes, failures, log, events, pre>>
    /\ UNCHANGED <<tmp, arg, ret>>

\* The process of a finished run is gone: only out_dir outlives it.
ProcessExit ==
    /\ pc \in {"done", "exit"}
    /\ pc' = "idle"
    /\ rows' = <<>>
    /\ dropped' = 0
    /\ argStart' = 0
    /\ argEnd' = None
    /\ overwrite' = FALSE
    /\ start' = 0
    /\ end' = 0
    /\ i' = 0
    /\ successes' = 0
    /\ failures' = 0
    /\ log' = <<>>
    /\ exitStatus' = None
    /\ ClearLocals
    /\ UNCHANGED <<fs, calls, faults>>
    /\ UNCHANGED <<arg, ret>>

Next ==
    \/ ParseArgs
    \/ ReadAndResolve
    \/ BeginRow
    \/ ClearArtifacts
    \/ WriteUrl
    \/ WriteMetadata
    \/ EnterTempDir
    \/ Download
    \/ WriteMediaType
    \/ ExtractImage
    \/ ExtractVideo
    \/ Embed
    \/ Report
    \/ Finish
    \/ ProcessExit

Spec == Init /\ [][Next]_vars

\* One run of the program on an empty out_dir, from the command line to
\* the exit of the process.
RunNext ==
    \/ ParseArgs
    \/ ReadAndResolve
    \/ BeginRow
    \/ ClearArtifacts
    \/ WriteUrl
    \/ WriteMetadata
    \/ EnterTempDir
    \/ Download
    \/ WriteMediaType
    \/ ExtractImage
    \/ ExtractVideo
    \/ Embed
    \/ Report
    \/ Finish

\* The program is sequential and every call it makes returns or raises
\* (the transports have timeouts): a step that can be taken is taken.
LiveSpec == Init /\ [][RunNext]_vars /\ WF_vars(RunNext)

\* ------------------------------------------------------ an interrupted run

\* Mutant: the vector is written in place, so an interrupted call can
\* leave a part of it at out_path.
InterruptedWriteInPlace(old, f) == {old, File(<<"partial", f>>), File(Embedding(f))}

\* embed_image_clip_to_npy interrupted during the call: the write is all
\* or nothing, the file is as it was or holds the whole vector.
InterruptedWrite(old, f) == {old, File(Embedding(f))}

\* The run is interrupted (a signal) while process_url is at work on a row:
\* the exception leaves the with block and ends the process.
Interrupt ==
    /\ pc \in RowPcs \ {"report"}
    /\ IF pc = "embed"
       THEN \E f \in InterruptedWrite(fs[job_id(i)].npy, frame[1]) :
               fs' = [fs EXCEPT ![job_id(i)].npy = f]
       ELSE UNCHANGED fs
    /\ events' = Append(events, "interrupt")
    /\ pc' = "exit"
    /\ exitStatus' = Some(130)
    /\ url' = <<>>
    /\ media_type' = None
    /\ download_error' = None
    /\ resp' = NoResp
    /\ frame' = None
    /\ tmp' = ExitTempDir(tmp)
    /\ UNCHANGED <<calls, faults, rows, dropped, argStart, argEnd, overwrite, start,
                   end, i, err, num_frames, successes, failures, log, pre>>
    /\ UNCHANGED <<arg, ret>>

InterruptNext ==
    \/ RunNext
    \/ Interrupt

InterruptSpec == Init /\ [][InterruptNext]_vars

\* ------------------------------------------- the functions on their own

\* The state of main and process_url, which a function call leaves alone.
pipeline == <<fs, calls, faults, pc, rows, dropped, argStart, argEnd, overwrite, start,
              end, i, url, media_type, download_error, resp, frame, err, num_frames,
              successes, failures, log, exitStatus, events, pre, tmp>>

\* URLs as token sequences: a name, extensions in both cases, the query
\* and fragment marks.
UrlTokens == {"a", ".jpg", ".JPG", ".mp4", "?", "#"}
FnUrls == SeqsUpTo(UrlTokens, MaxUrlLen)

\* Outcomes of the HEAD probe: it raised, or it answered a Content-Type.
Probes == {None} \cup {Some(c) : c \in ContentTypes}

\* Row ordinals around each width of the decimal form.
Indexes == (0..MaxIndex) \cup {99, 100, 999, 1000, 9999, 10000, 10001}

DetectArgs ==
    {[NoArg EXCEPT !.fn = "detect_media_type", !.url = u, !.probe = p] :
        u \in FnUrls, p \in Probes}

DownloadArgs ==
    {[NoArg EXCEPT !.fn = "download_file", !.url = u, !.probe = p, !.ok = TRUE, !.ct = c] :
        u \in FnUrls, p \in Probes, c \in ContentTypes}
    \cup
    {[NoArg EXCEPT !.fn = "download_file", !.url = u, !.probe = p, !.msg = m] :
        u \in FnUrls, p \in Probes, m \in ErrMsgs}

JobIdArgs ==
    {[NoArg EXCEPT !.fn = "job_id", !.a = x, !.b = y] : x \in Indexes, y \in Indexes}

FnInit ==
    /\ PipelineInit
    /\ arg \in DetectArgs \cup DownloadArgs \cup JobIdArgs
    /\ ret = None

\* detect_media_type(url) is called and returns; calls holds the network
\* calls it made.
CallDetect ==
    /\ arg.fn = "detect_media_type"
    /\ ret = None
    /\ ret' = Some([media_type |-> detect_media_type(arg.url, arg.probe),
                    error |-> None,
                    calls |-> IF NeedsProbe(arg.url) THEN <<"head">> ELSE <<>>])
    /\ UNCHANGED <<pipeline, arg>>

\* download_file(url, dest_path) is called and returns.
CallDownload ==
    /\ arg.fn = "download_file"
    /\ ret = None
    /\ ret' = Some(download_file(arg.url, arg.ok, arg.ct, arg.msg, arg.probe))
    /\ UNCHANGED <<pipeline, arg>>

\* process_url computes the job id of two row ordinals.
CallJobId ==
    /\ arg.fn = "job_id"
    /\ ret = None
    /\ ret' = Some(<<job_id(arg.a), job_id(arg.b)>>)
    /\ UNCHANGED <<pipeline, arg>>

FnNext ==
    \/ CallDetect
    \/ CallDownload
    \/ CallJobId

FnSpec == FnInit /\ [][FnNext]_vars

\* ------------------------------------------------------------------ claims

InRow == pc \in RowPcs
Did(e) == e \in Range(events)
Failed == err # None /\ err[1] # ""
ThisRow == rows[i + 1]
\* download_file has been entered, or is about to be, for the current row.
FetchAttempted == pc \in {"download", "wmtype", "extract", "embed"}
                  \/ (pc = "report" /\ Did("download_file"))
AllFour(job) == job.url # Absent /\ job.meta # Absent /\ job.mtype # Absent
                /\ job.npy # Absent

\* C1 as stated: whenever the download is about to start or has started
\* for a row, url.txt and metadata.txt exist in the job directory, up to
\* the end of the row.
C1_ProvenanceExistsAtFetch ==
    FetchAttempted => fs[job_id(i)].url # Absent /\ fs[job_id(i)].meta # Absent

\* C1 amended: both provenance writes are attempted before download_file
\* is called; a file whose write did not raise holds the row's URL (its
\* metadata) when download_file is called and up to the end of the row,
\* whichever later stage fails.
C1_ProvenanceWrittenBeforeFetch ==
    FetchAttempted =>
        /\ Did("w_url") \/ Did("w_url_fail")
        /\ Did("w_meta") \/ Did("w_meta_fail")
        /\ pc = "download" => ~Did("download_file")
        /\ Did("w_url") => fs[job_id(i)].url = File(RowUrl(ThisRow))
        /\ Did("w_meta") => fs[job_id(i)].meta = File(MetadataLines(ThisRow))

C1_Witness ==
    /\ pc = "report"
    /\ err = Some("video_open_error")
    /\ Did("w_url") /\ Did("w_meta")
    /\ fs[job_id(i)].url # Absent /\ fs[job_id(i)].meta # Absent

\* C2: a row processed without overwrite on a job that already has
\* first_frame.npy ends with that file's contents unchanged.
C2_NoOverwriteKeepsEmbedding ==
    (pc = "report" /\ ~overwrite /\ pre.npy # Absent) => fs[job_id(i)].npy = pre.npy

\* C3: with overwrite on a job that held all four artifacts, all four are
\* gone before the first new write, and a rerun that fails leaves no
\* embedding artifact.
C3_OverwriteLeavesNoStaleEmbedding ==
    (overwrite /\ InRow /\ AllFour(pre)) =>
        /\ pc = "wurl" => /\ fs[job_id(i)].url = Absent /\ fs[job_id(i)].meta = Absent
                          /\ fs[job_id(i)].mtype = Absent /\ fs[job_id(i)].npy = Absent
        /\ (pc = "report" /\ Failed) => fs[job_id(i)].npy = Absent

\* C4: download_file returns an error only after the secondary (urllib)
\* transport was tried too.
C4_FallbackTried ==
    (pc = "report" /\ err = Some("download_error")) => Did("urllib")

\* C5: the rows reported so far are start, start+1, ... in ascending order,
\* one line each, and at the summary every ordinal of [start, end) has its
\* line, whatever rows failed.
C5_EveryRowReported ==
    (pc \in RowPcs \cup {"loop", "done"}) =>
        /\ Len(log) = i - start
        /\ \A k \in 1..Len(log) : log[k].idx = start + k - 1
        /\ pc = "done" => Len(log) = end - start

C5_Witness ==
    /\ pc = "done"
    /\ Len(log) = 2
    /\ ~log[1].ok
    /\ log[2].idx = log[1].idx + 1

\* C6: at the end of a row, the row is reported OK exactly when the job
\* directory holds first_frame.npy.
C6_EmbeddingIffOk ==
    pc = "report" => (~Failed <=> fs[job_id(i)].npy # Absent)

\* C7: every input row whose URL cell is empty is reported and counted as
\* a failure of the run (over the whole row list).
C7_EmptyUrlRowReported ==
    (pc = "done" /\ start = 0 /\ end = Len(rows)) =>
        /\ Len(log) = Len(rows) + dropped
        /\ failures >= dropped

\* C8: when a download succeeded, the value written to media_type.txt is
\* the type the Content-Type names (image, else video), and otherwise the
\* value detect_media_type returned for the URL.
C8_MediaTypeFromResponse ==
    [][(pc = "wmtype" /\ download_error = None /\ "w_mtype" \in Range(events')) =>
          fs'[job_id(i)].mtype =
              File(IF "image" \in resp.ct THEN "image"
                   ELSE IF "video" \in resp.ct THEN "video"
                   ELSE detect_media_type(url, IF resp.head = None THEN None
                                                ELSE resp.head[1]))]_vars

\* The Content-Type said video for a URL whose extension says image.
C8_Witness ==
    /\ pc = "extract"
    /\ download_error = None
    /\ Did("w_mtype")
    /\ url = <<"a", ".jpg">>
    /\ fs[job_id(i)].mtype = File("video")

\* C9: once the extraction of a row has run, media_type.txt holds the type
\* of the branch that was taken.
C9_RecordedTypeMatchesBranch ==
    /\ (InRow /\ Did("x_image")) => fs[job_id(i)].mtype = File("image")
    /\ (InRow /\ Did("x_video")) => fs[job_id(i)].mtype = File("video")

\* C10: when the resolved start is not below the resolved end, main exits
\* with status 1 without processing a row; it never reaches the summary
\* with no row processed.
C10_EmptyRangeIsFatal ==
    [][/\ pc = "read" =>
            LET n == Len(rows')
                s == IF argStart > 0 THEN argStart ELSE 0
                e == IF argEnd = None \/ argEnd[1] > n THEN n ELSE argEnd[1]
            IN  /\ s >= e => /\ pc' = "exit" /\ exitStatus' = Some(1)
                             /\ calls' = calls /\ log' = <<>>
                /\ s < e => pc' = "loop" /\ start' = s /\ end' = e /\ i' = s
       /\ pc' = "done" => Len(log') >= 1 /\ exitStatus' = Some(0)]_vars

\* Rows were read, yet the requested range is empty.
C10_Witness ==
    /\ pc = "exit"
    /\ exitStatus = Some(1)
    /\ rows # <<>>
    /\ start >= end
    /\ log = <<>>

\* C11: a run that entered the loop (readable input, non-empty range)
\* reaches the summary after end - start rows and exits with status 0,
\* however many rows failed.
C11_RunTerminates ==
    /\ [](pc = "done" => /\ exitStatus = Some(0)
                         /\ successes + failures = end - start
                         /\ Len(log) = end - start)
    /\ (pc = "loop") ~> (pc = "done" /\ exitStatus = Some(0))

\* Every row of a two-row run failed, and the run exited with status 0.
C11_Witness ==
    /\ pc = "done"
    /\ end - start = 2
    /\ failures = 2
    /\ exitStatus = Some(0)

\* C12: a step of the program changes the files of job j only while row j
\* is being processed: while row i is in flight, with any outcome and with
\* overwrite on or off, the directory of every other ordinal stays as it is.
C12_OtherJobsUntouched ==
    [][\A j \in Jobs :
          (j # i \/ pc \notin RowPcs \cup {"loop"}) =>
              fs'[job_id(j)] = fs[job_id(j)]]_vars

\* Row 1 was processed with overwrite while job 0 held its four artifacts.
C12_Witness ==
    /\ pc = "report"
    /\ i = 1
    /\ overwrite
    /\ AllFour(fs[job_id(0)])
    /\ fs[job_id(1)].url # Absent

\* C13: the raw download and the still frame exist only inside tdir, and
\* once process_url has returned, with success or with any failure reason,
\* tdir and both files are gone.
C13_TempAreaReclaimed ==
    /\ (resp.body # NoBody \/ frame # None) => tmp
    /\ pc \notin {"download", "wmtype", "extract", "embed"} =>
           ~tmp /\ resp.body = NoBody /\ frame = None

\* The row failed at its last stage, after the raw file and the still
\* frame had been written to tdir.
C13_Witness ==
    /\ pc = "report"
    /\ err = Some("embed_error")
    /\ Did("download_file") /\ Did("embed")
    /\ ~tmp

\* The path of the URL, query and fragment stripped, ends with one of exts.
PathEndsWith(u, exts) ==
    LET path == PathPart(u)
    IN  path # <<>> /\ path[Len(path)] \in exts

\* C14: for a URL whose path ends with a video extension,
\* detect_media_type returns video and makes no network call.
C14_VideoExtensionIsVideo ==
    (arg.fn = "detect_media_type" /\ ret # None /\ PathEndsWith(arg.url, video_exts)) =>
        ret[1].media_type = "video" /\ ret[1].calls = <<>>

\* C15: for a URL whose path ends with an image extension,
\* detect_media_type returns image and makes no network call.
C15_ImageExtensionIsImage ==
    (arg.fn = "detect_media_type" /\ ret # None /\ PathEndsWith(arg.url, image_exts)) =>
        ret[1].media_type = "image" /\ ret[1].calls = <<>>

\* An upper-case image extension after a video extension, before a query.
C15_Witness ==
    /\ arg.fn = "detect_media_type"
    /\ arg.url = <<".mp4", ".JPG", "?">>
    /\ ret # None
    /\ ret[1].media_type = "image"

\* C16: for a URL with no recognized extension whose probe raised or
\* answered a Content-Type naming neither type, detect_media_type returns
\* video; download_file returns, on every path, a media type that is
\* image or video with None or an error message, and when the primary
\* transport raised, the classifier's type with the message of the
\* exception.
C16_ClassifyAndFetchAlwaysReturn ==
    /\ (/\ arg.fn = "detect_media_type" /\ ret # None
        /\ NeedsProbe(arg.url)
        /\ (arg.probe = None \/ arg.probe[1] = {})) =>
           ret[1].media_type = "video"
    /\ (arg.fn = "download_file" /\ ret # None) =>
           /\ ret[1].media_type \in {"image", "video"}
           /\ ret[1].error \in {None} \cup {Some(m) : m \in ErrMsgs}
           /\ arg.ok => ret[1].error = None
           /\ ~arg.ok => ret[1].error = Some(arg.msg)
           /\ (~arg.ok /\ NeedsProbe(arg.url)
                /\ (arg.probe = None \/ arg.probe[1] = {})) =>
                  ret[1].media_type = "video"

\* The primary transport raised for a URL without extension and the probe
\* told nothing: download_file returned (video, message).
C16_Witness ==
    /\ arg.fn = "download_file"
    /\ ~arg.ok
    /\ arg.url = <<"a", "?", ".jpg">>
    /\ arg.probe = Some({})
    /\ ret = Some([media_type |-> "video", error |-> Some("HTTP 404"),
                   calls |-> <<"requests", "head">>])

\* The number a job id's digits stand for.
RECURSIVE DigitsValue(_)
DigitsValue(d) ==
    IF d = <<>> THEN 0
    ELSE 10 * DigitsValue(SubSeq(d, 1, Len(d) - 1))
         + (CHOOSE k \in 0..9 : DigitChars[k + 1] = d[Len(d)])

\* C18: the job id of ordinal i is url_ followed by the decimal form of i,
\* zero-padded to four digits and never cut, and two different ordinals
\* get different job ids.
C18_JobIdsUnique ==
    (arg.fn = "job_id" /\ ret # None) =>
        LET x == ret[1][1]
            y == ret[1][2]
        IN  /\ Head(x) = "url_"
            /\ Len(Tail(x)) >= 4
            /\ Len(Tail(x)) > 4 => x[2] # "0"
            /\ DigitsValue(Tail(x)) = arg.a
            /\ arg.a # arg.b => x # y

\* The ordinals on both sides of the fifth digit.
C18_Witness ==
    /\ arg.fn = "job_id"
    /\ arg.a = 9999
    /\ arg.b = 10000
    /\ ret = Some(<<job_id(9999), job_id(10000)>>)
    /\ Len(job_id(10000)) = 6

Wrote(e) == Did(e) \/ Did(e \o "_fail")
Extracted == Did("x_image") \/ Did("x_video")
ExtractTags == {"image_process_error", "video_open_error", "read_first_frame_error",
                "first_frame_error"}

\* C19: the stages of a row run in the order download, media_type.txt,
\* extraction, embedding; no stage runs after a download that returned an
\* error, none after a failed extraction, the embedding call is made at most
\* once, and the reported reason is the tag of the first stage that failed.
C19_StagesShortCircuit ==
    /\ pc \in {"wmtype", "extract", "embed"} => download_error = None
    /\ InRow =>
          /\ Cardinality({k \in 1..Len(events) : events[k] = "embed"}) <= 1
          /\ Wrote("w_mtype") => Did("download_file")
          /\ Extracted => Wrote("w_mtype")
          /\ Did("embed") => Extracted
    /\ pc = "report" =>
          /\ err = Some("download_error") =>
                Did("download_file") /\ ~Wrote("w_mtype") /\ ~Extracted /\ ~Did("embed")
          /\ (err # None /\ err[1] \in ExtractTags) => Extracted /\ ~Did("embed")
          /\ err = Some("image_process_error") <=> (Did("x_image") /\ ~Did("embed"))
          /\ err = Some("embed_error") => Did("embed")
          /\ err = None => Did("embed")

\* C20: at the end of a row, a first_frame.npy in the job directory was
\* saved by this call of process_url exactly when url.txt was written by
\* it: the two files never come from different runs.
C20_EmbeddingBelongsToUrl ==
    (pc = "report" /\ fs[job_id(i)].npy # Absent) =>
        (Did("w_url") <=> (Did("embed") /\ ~Failed))

\* C21: in the main loop successes + failures is the number of rows
\* reported so far, end - start at the summary; a row is counted as a
\* success exactly when process_url returned no error, and a row whose
\* embedding call failed is counted as a failure with its frame count of 1.
C21_SummaryCounts ==
    /\ [](pc \in RowPcs \cup {"loop", "done"} =>
             /\ successes + failures = i - start
             /\ successes = Cardinality({k \in 1..Len(log) : log[k].ok})
             /\ pc = "done" => successes + failures = end - start)
    /\ [][pc = "report" =>
             /\ err = None => successes' = successes + 1 /\ failures' = failures
             /\ err # None => failures' = failures + 1 /\ successes' = successes
             /\ err = Some("embed_error") => num_frames = 1
             /\ num_frames = 1 => Did("embed")]_vars

\* A run of two rows ended: the first one failed after its download (in
\* the extraction or in the embedding call), the second one succeeded.
C21_Witness ==
    /\ pc = "done"
    /\ successes = 1
    /\ failures = 1
    /\ ~log[1].ok /\ log[2].ok
    /\ fs[job_id(start)].npy = Absent
    /\ fs[job_id(start)].mtype # Absent

====
